---- MODULE Spec2Model ----
(***************************************************************************)
(* Model of the customer churn ETL job: CustomerChurnETL (configuration,   *)
(* extract_data, transform_data, load_data, run_etl) and the job           *)
(* entrypoint main().                                                      *)
(*                                                                         *)
(* Text is a sequence of one-character strings.  A table cell is a record  *)
(* [t, m, k, s]: t is the Python type of the cell ("int", "float", "str",  *)
(* "nan"); an int is m, a float is m / 10^k, a str is the text s.          *)
(***************************************************************************)
EXTENDS Integers, Sequences, FiniteSets, TLC

VARIABLES
    pc,        \* where the job (or the single call under study) stands
    env,       \* the process environment read by os.getenv
    df,        \* the table extract_data returned
    records,   \* the batch transform_data returned, or the caller's batch
    before,    \* the target collection as it was before the load
    coll,      \* the documents of the target collection
    index,     \* whether the unique index on "customerID" exists
    nextId,    \* the next document id handed out
    client,    \* the MongoClient of load_data: "none", "open" or "closed"
    calls,     \* the dataset and store calls made so far, in order
    stages,    \* the stages run_etl has called, in order
    outcomes,  \* "ok" or "raised" for each of them
    inserted,  \* the value load_data returned
    error      \* the exception raised: its original cause, its message and
               \* the line each CustomerChurnException wrapper recorded

vars == <<pc, env, df, records, before, coll, index, nextId, client, calls,
          stages, outcomes, inserted, error>>

\* ------------------------------------------------------------------ bounds
MaxRows == 3
MaxLen == 3
MaxBatch == 2

\* ------------------------------------------------------------------ cells
IntCell(n) == [t |-> "int", m |-> n, k |-> 0, s |-> <<>>]
FloatCell(n, d) == [t |-> "float", m |-> n, k |-> d, s |-> <<>>]
StrCell(x) == [t |-> "str", m |-> 0, k |-> 0, s |-> x]
NaN == [t |-> "nan", m |-> 0, k |-> 0, s |-> <<>>]

Yes == StrCell(<<"Y", "e", "s">>)
No == StrCell(<<"N", "o">>)

DigitChars == <<"0", "1", "2", "3", "4", "5", "6", "7", "8", "9">>

IsDigit(c) == \E i \in 1..10 : DigitChars[i] = c

DigitValue(c) == (CHOOSE i \in 1..10 : DigitChars[i] = c) - 1

RECURSIVE Pow10(_)
Pow10(d) == IF d = 0 THEN 1 ELSE 10 * Pow10(d - 1)

\* str(n) of a non-negative int
RECURSIVE Digits(_)
Digits(n) == IF n < 10 THEN <<DigitChars[n + 1]>>
             ELSE Digits(n \div 10) \o <<DigitChars[(n % 10) + 1]>>

\* the d digits of a fraction part, zero padded on the left
RECURSIVE FracDigits(_, _)
FracDigits(n, d) == IF d = 0 THEN <<>>
                    ELSE FracDigits(n \div 10, d - 1) \o <<DigitChars[(n % 10) + 1]>>

\* a float value m / 10^k with no trailing zero in its fraction
RECURSIVE Normal(_, _)
Normal(n, d) == IF d > 0 /\ n % 10 = 0 THEN Normal(n \div 10, d - 1)
                ELSE FloatCell(n, d)

\* Series.astype(str) on one cell
astype_str(v) ==
    CASE v.t = "str" -> v.s
      [] v.t = "int" -> Digits(v.m)
      [] v.t = "float" ->
            IF v.k = 0 THEN Digits(v.m) \o <<".", "0">>
            ELSE Digits(v.m \div Pow10(v.k)) \o <<".">> \o FracDigits(v.m % Pow10(v.k), v.k)
      [] v.t = "nan" -> <<"n", "a", "n">>

IsSpace(c) == c = " "

RECURSIVE lstrip(_)
lstrip(x) == IF x # <<>> /\ IsSpace(Head(x)) THEN lstrip(Tail(x)) ELSE x

RECURSIVE rstrip(_)
rstrip(x) == IF x # <<>> /\ IsSpace(x[Len(x)]) THEN rstrip(SubSeq(x, 1, Len(x) - 1)) ELSE x

\* a bug: only the leading whitespace is removed
strip_left_only(x) == lstrip(x)

\* Series.str.strip() on one cell
strip(x) == rstrip(lstrip(x))

\* Series.replace("", np.nan) on one cell of the stripped text column
replace_empty(x) == IF x = <<>> THEN NaN ELSE StrCell(x)

\* the leading run of digits of a text
RECURSIVE DigitRun(_)
DigitRun(x) == IF x # <<>> /\ IsDigit(Head(x)) THEN <<Head(x)>> \o DigitRun(Tail(x)) ELSE <<>>

RECURSIVE DigitsValue(_)
DigitsValue(x) == IF x = <<>> THEN 0
                  ELSE 10 * DigitsValue(SubSeq(x, 1, Len(x) - 1)) + DigitValue(x[Len(x)])

\* pd.to_numeric(errors="coerce") on one cell: digits, an optional point and
\* digits, at least one digit in all; anything else is coerced to NaN
to_numeric(v) ==
    IF v.t # "str" THEN v
    ELSE LET whole == DigitRun(v.s)
             rest == SubSeq(v.s, Len(whole) + 1, Len(v.s))
         IN IF rest = <<>>
            THEN IF whole = <<>> THEN NaN ELSE IntCell(DigitsValue(whole))
            ELSE IF Head(rest) # "." THEN NaN
            ELSE LET frac == DigitRun(Tail(rest))
                 IN IF Len(frac) # Len(rest) - 1 \/ (whole = <<>> /\ frac = <<>>)
                    THEN NaN
                    ELSE Normal(DigitsValue(whole \o frac), Len(frac))

\* lines 114-123: the "TotalCharges" column, cell by cell
coerce_total_charges(v) == to_numeric(replace_empty(strip(astype_str(v))))

\* a bug: a value that is no key is kept (Series.replace instead of Series.map)
map_senior_passthrough(v) ==
    IF v.t \in {"int", "float"} /\ v.m = Pow10(v.k) THEN Yes
    ELSE IF v.t \in {"int", "float"} /\ v.m = 0 THEN No
    ELSE v

\* line 111: Series.map({1: "Yes", 0: "No"}); a value that is no key maps to NaN
map_senior(v) ==
    IF v.t \in {"int", "float"} /\ v.m = Pow10(v.k) THEN Yes
    ELSE IF v.t \in {"int", "float"} /\ v.m = 0 THEN No
    ELSE NaN

\* a bug: keep="last"
RECURSIVE drop_duplicates_keep_last(_)
drop_duplicates_keep_last(t) ==
    IF t = <<>> THEN <<>>
    ELSE LET back == drop_duplicates_keep_last(Tail(t))
         IN IF \E i \in 1..Len(back) : back[i].customerID = Head(t).customerID
            THEN back
            ELSE <<Head(t)>> \o back

\* line 108: DataFrame.drop_duplicates(subset=["customerID"], keep="first")
RECURSIVE drop_duplicates(_)
drop_duplicates(t) ==
    IF t = <<>> THEN <<>>
    ELSE LET front == drop_duplicates(SubSeq(t, 1, Len(t) - 1))
             last == t[Len(t)]
         IN IF \E i \in 1..Len(front) : front[i].customerID = last.customerID
            THEN front
            ELSE Append(front, last)

\* ------------------------------------------------------------------ errors
NoError == [cause |-> "none", msg |-> <<>>, linenos |-> <<>>]

\* a fault raised by the code or a collaborator, not yet wrapped
Raised(cause, msg) == [cause |-> cause, msg |-> msg, linenos |-> <<>>]

\* exceptions.py: the wrapper keeps the original error and records the line of
\* the try block the fault came through (exc_tb.tb_lineno)
CustomerChurnException(e, lineno) == [e EXCEPT !.linenos = Append(@, lineno)]

\* ------------------------------------------------------------------ configuration
EnvVars == <<"MONGODB_URL", "DATA_SOURCE", "MONGODB_DATABASE", "MONGODB_COLLECTION">>

\* os.getenv: None when the variable is not set, else its text
Unset == [none |-> TRUE, s |-> <<>>]
Text(x) == [none |-> FALSE, s |-> x]
EnvValues == {Unset, Text(<<>>), Text(<<"v">>)}

\* Python truth of "not value" for None or a str
Falsy(v) == v.none \/ v.s = <<>>

\* ', '.join(names)
RECURSIVE join(_)
join(names) == IF Len(names) <= 1 THEN names
               ELSE <<Head(names), ", ">> \o join(Tail(names))

\* a bug: only the first variable with no value is reported
missing_vars_first(e) ==
    LET all == SelectSeq(EnvVars, LAMBDA name : Falsy(e[name]))
    IN IF all = <<>> THEN <<>> ELSE <<Head(all)>>

\* line 65: the required variables with no value, in the order of required_vars
missing_vars(e) == SelectSeq(EnvVars, LAMBDA name : Falsy(e[name]))

\* _validate_env
validate_env(e) ==
    IF missing_vars(e) # <<>>
    THEN Raised("ValueError",
                <<"Missing required environment variables: ">> \o join(missing_vars(e)))
    ELSE NoError

\* __init__: validate, wrap a failure
init(e) ==
    IF validate_env(e) # NoError
    THEN CustomerChurnException(validate_env(e), 47)
    ELSE NoError

\* ------------------------------------------------------------------ extract
Columns == {"customerID", "SeniorCitizen", "TotalCharges"}

EmptyTable == [columns |-> Columns, rows |-> <<>>]

\* extract_data: the snapshot download, the *.csv files found, the parsed table
extract_data(downloadOk, ncsv, table) ==
    IF ~downloadOk
    THEN [ok |-> FALSE, df |-> EmptyTable,
          error |-> CustomerChurnException(Raised("DownloadError", <<>>), 78)]
    ELSE IF ncsv # 1
    THEN [ok |-> FALSE, df |-> EmptyTable,
          error |-> CustomerChurnException(
              Raised("ValueError", <<"Expected exactly one CSV file in dataset directory">>), 82)]
    ELSE IF table.rows = <<>>
    THEN [ok |-> FALSE, df |-> EmptyTable,
          error |-> CustomerChurnException(
              Raised("ValueError", <<"Extracted dataset is empty">>), 87)]
    ELSE [ok |-> TRUE, df |-> table, error |-> NoError]

\* ------------------------------------------------------------------ transform
\* lines 108-125 on a table that has every column
to_records(rows) ==
    LET kept == drop_duplicates(rows)
    IN [i \in 1..Len(kept) |->
           [customerID |-> kept[i].customerID,
            SeniorCitizen |-> map_senior(kept[i].SeniorCitizen),
            TotalCharges |-> coerce_total_charges(kept[i].TotalCharges)]]

\* transform_data
transform_data(d) ==
    IF d.rows = <<>>
    THEN [ok |-> FALSE, records |-> <<>>,
          error |-> CustomerChurnException(
              Raised("ValueError", <<"Cannot transform an empty DataFrame">>), 105)]
    ELSE IF "customerID" \notin d.columns
    THEN [ok |-> FALSE, records |-> <<>>,
          error |-> CustomerChurnException(Raised("KeyError", <<"customerID">>), 108)]
    ELSE IF "SeniorCitizen" \notin d.columns
    THEN [ok |-> FALSE, records |-> <<>>,
          error |-> CustomerChurnException(Raised("KeyError", <<"SeniorCitizen">>), 111)]
    ELSE IF "TotalCharges" \notin d.columns
    THEN [ok |-> FALSE, records |-> <<>>,
          error |-> CustomerChurnException(Raised("KeyError", <<"TotalCharges">>), 115)]
    ELSE [ok |-> TRUE, records |-> to_records(d.rows), error |-> NoError]

\* ------------------------------------------------------------------ the store
\* The state of the target collection: its documents, whether the unique index
\* on "customerID" exists, and the next document id the client hands out.
Store(c, ix, n) == [coll |-> c, index |-> ix, nextId |-> n]

\* a bug: the collection is not cleared
delete_many_noop(st) == st

\* collection.delete_many({})
delete_many(st) == Store(<<>>, st.index, st.nextId)

\* a bug: the index is not created
create_index_skipped(st) == st

\* collection.create_index("customerID", unique=True)
create_index(st) == Store(st.coll, TRUE, st.nextId)

\* collection.insert_many(records, ordered=False): every record is attempted
\* in turn; one the store rejects (its position is in rejected) or, under the
\* unique index, whose customerID is already present is skipped and the rest
\* are still attempted.  The documents of the collection afterwards.
RECURSIVE insert_unordered(_, _, _, _, _)
insert_unordered(recs, rejected, st, i, acc) ==
    IF i > Len(recs) THEN acc
    ELSE LET dup == st.index /\ \E j \in 1..Len(acc) :
                                    acc[j].rec.customerID = recs[i].customerID
         IN insert_unordered(recs, rejected, st, i + 1,
                IF i \in rejected \/ dup THEN acc
                ELSE Append(acc, [id |-> st.nextId + i - 1, rec |-> recs[i]]))

insert_many(st, recs, rejected) ==
    Store(insert_unordered(recs, rejected, st, 1, st.coll), st.index, st.nextId + Len(recs))

Faults == {"none", "connect", "delete", "index", "insert"}

\* a bug: an empty batch is loaded like any other
skip_load_never(recs) == FALSE

\* line 142: "if not records"
skip_load(recs) == recs = <<>>

\* load_data.  fault is the step at which the store client raises (a bad URI,
\* an unreachable server, an index conflict), rejected the positions of the
\* records the store refuses on insert.  The result carries the value returned
\* or the error raised, the store afterwards, the state of the connection and
\* the store calls made.
load_data(recs, st, fault, rejected) ==
    LET base == [ok |-> TRUE, ret |-> 0, store |-> st, client |-> "none",
                 calls |-> <<>>, error |-> NoError]
        cleared == delete_many(st)
        indexed == create_index(cleared)
        written == insert_many(indexed, recs, rejected)
        inserted_ids == Len(written.coll) - Len(indexed.coll)
    IN IF skip_load(recs) THEN base
       ELSE IF fault = "connect"
       THEN [base EXCEPT !.ok = FALSE, !.calls = <<"MongoClient">>,
                         !.error = CustomerChurnException(Raised("StoreError", <<"MongoClient">>), 148)]
       ELSE IF fault = "delete"
       THEN [base EXCEPT !.ok = FALSE, !.client = "open",
                         !.calls = <<"MongoClient", "delete_many">>,
                         !.error = CustomerChurnException(Raised("StoreError", <<"delete_many">>), 158)]
       ELSE IF fault = "index"
       THEN [base EXCEPT !.ok = FALSE, !.client = "open", !.store = cleared,
                         !.calls = <<"MongoClient", "delete_many", "create_index">>,
                         !.error = CustomerChurnException(Raised("StoreError", <<"create_index">>), 161)]
       ELSE IF fault = "insert"
       THEN [base EXCEPT !.ok = FALSE, !.client = "open", !.store = indexed,
                         !.calls = <<"MongoClient", "delete_many", "create_index", "insert_many">>,
                         !.error = CustomerChurnException(Raised("StoreError", <<"insert_many">>), 163)]
       ELSE IF inserted_ids < Len(recs)
       THEN [base EXCEPT !.ok = FALSE, !.client = "open", !.store = written,
                         !.calls = <<"MongoClient", "delete_many", "create_index", "insert_many">>,
                         !.error = CustomerChurnException(Raised("BulkWriteError", <<"insert_many">>), 163)]
       ELSE [base EXCEPT !.ret = inserted_ids, !.client = "closed", !.store = written,
                         !.calls = <<"MongoClient", "delete_many", "create_index", "insert_many", "close">>]

\* ------------------------------------------------------------------ inputs
CustomerIDs == {"A", "B"}
SeniorValues == {IntCell(0), IntCell(1), IntCell(2)}
SampleCharges == {StrCell(<<"1">>), StrCell(<<" ">>)}

Rows == [customerID : CustomerIDs, SeniorCitizen : SeniorValues, TotalCharges : SampleCharges]

SeqsUpTo(S, n) == UNION {[1..len -> S] : len \in 0..n}

\* a table with no "TotalCharges" column (the cells of its rows are not read)
HeaderlessTable ==
    [columns |-> Columns \ {"TotalCharges"},
     rows |-> <<[customerID |-> "A", SeniorCitizen |-> IntCell(0), TotalCharges |-> NaN]>>]

Tables == {[columns |-> Columns, rows |-> r] : r \in SeqsUpTo(Rows, MaxRows)}
              \cup {HeaderlessTable}

\* what an earlier run left in the target collection
OldRecord(cid) == [customerID |-> cid, SeniorCitizen |-> No, TotalCharges |-> NaN]
OldCollection == <<[id |-> 1, rec |-> OldRecord("A")], [id |-> 2, rec |-> OldRecord("C")]>>
OldStore == Store(OldCollection, TRUE, 3)

\* ------------------------------------------------------------------ the job
\* main(), line 26: CustomerChurnETL()
Construct ==
    /\ pc = "start"
    /\ IF init(env) = NoError
       THEN /\ pc' = "constructed"
            /\ error' = error
       ELSE /\ pc' = "failed"
            /\ error' = CustomerChurnException(init(env), 26)
    /\ UNCHANGED <<env, df, records, before, coll, index, nextId, client, calls,
                   stages, outcomes, inserted>>

\* run_etl(), line 185: extract_data(); a failure goes up through run_etl and main
Extract ==
    /\ pc = "constructed"
    /\ \E downloadOk \in BOOLEAN, ncsv \in 0..2, table \in Tables :
          /\ ~downloadOk => (ncsv = 0 /\ table = EmptyTable)
          /\ ncsv # 1 => table = EmptyTable
          /\ LET r == extract_data(downloadOk, ncsv, table)
             IN /\ df' = r.df
                /\ calls' = calls \o (IF ~downloadOk THEN <<"dataset_download">>
                                      ELSE IF ncsv # 1 THEN <<"dataset_download", "glob">>
                                      ELSE <<"dataset_download", "glob", "read_csv">>)
                /\ stages' = Append(stages, "extract")
                /\ outcomes' = Append(outcomes, IF r.ok THEN "ok" ELSE "raised")
                /\ pc' = IF r.ok THEN "extracted" ELSE "failed"
                /\ error' = IF r.ok THEN error
                            ELSE CustomerChurnException(CustomerChurnException(r.error, 185), 27)
    /\ UNCHANGED <<env, records, before, coll, index, nextId, client, inserted>>

\* a bug: run_etl goes on to the load when transform_data raised
Transform_continue ==
    /\ pc = "extracted"
    /\ LET r == transform_data(df)
       IN /\ records' = r.records
          /\ stages' = Append(stages, "transform")
          /\ outcomes' = Append(outcomes, IF r.ok THEN "ok" ELSE "raised")
          /\ pc' = "transformed"
          /\ error' = error
    /\ UNCHANGED <<env, df, before, coll, index, nextId, client, calls, inserted>>

\* run_etl(), line 186: transform_data(df)
Transform ==
    /\ pc = "extracted"
    /\ LET r == transform_data(df)
       IN /\ records' = r.records
          /\ stages' = Append(stages, "transform")
          /\ outcomes' = Append(outcomes, IF r.ok THEN "ok" ELSE "raised")
          /\ pc' = IF r.ok THEN "transformed" ELSE "failed"
          /\ error' = IF r.ok THEN error
                      ELSE CustomerChurnException(CustomerChurnException(r.error, 186), 27)
    /\ UNCHANGED <<env, df, before, coll, index, nextId, client, calls, inserted>>

\* run_etl(), line 187: load_data(records), then the job ends
Load ==
    /\ pc = "transformed"
    /\ \E fault \in Faults, rejected \in SUBSET (1..Len(records)) :
          /\ fault # "none" => rejected = {}
          /\ LET r == load_data(records, Store(coll, index, nextId), fault, rejected)
             IN /\ coll' = r.store.coll
                /\ index' = r.store.index
                /\ nextId' = r.store.nextId
                /\ client' = r.client
                /\ calls' = calls \o r.calls
                /\ inserted' = r.ret
                /\ stages' = Append(stages, "load")
                /\ outcomes' = Append(outcomes, IF r.ok THEN "ok" ELSE "raised")
                /\ pc' = IF r.ok THEN "done" ELSE "failed"
                /\ error' = IF r.ok THEN error
                            ELSE CustomerChurnException(CustomerChurnException(r.error, 187), 27)
    /\ UNCHANGED <<env, df, records, before>>

Init ==
    /\ pc = "start"
    /\ env \in [{EnvVars[i] : i \in 1..Len(EnvVars)} -> EnvValues]
    /\ df = EmptyTable
    /\ records = <<>>
    /\ before = OldStore
    /\ coll = OldStore.coll
    /\ index = OldStore.index
    /\ nextId = OldStore.nextId
    /\ client = "none"
    /\ calls = <<>>
    /\ stages = <<>>
    /\ outcomes = <<>>
    /\ inserted = 0
    /\ error = NoError

Next == Construct \/ Extract \/ Transform \/ Load

Spec == Init /\ [][Next]_vars

\* ------------------------------------------------------------------ load_data alone
\* a caller's batches: records as transform_data makes them, in any number
\* and with customerIDs that may repeat
BatchRecords == [customerID : CustomerIDs, SeniorCitizen : {Yes}, TotalCharges : {IntCell(1), NaN}]
Batches == SeqsUpTo(BatchRecords, MaxBatch)

PriorStores == {Store(<<>>, FALSE, 1), Store(<<>>, TRUE, 1),
                OldStore, Store(OldCollection, FALSE, 3)}

ConfiguredEnv == [name \in {EnvVars[i] : i \in 1..Len(EnvVars)} |-> Text(<<"v">>)]

InitLoad ==
    /\ pc = "load_call"
    /\ env = ConfiguredEnv
    /\ df = EmptyTable
    /\ records \in Batches
    /\ before \in PriorStores
    /\ coll = before.coll
    /\ index = before.index
    /\ nextId = before.nextId
    /\ client = "none"
    /\ calls = <<>>
    /\ stages = <<>>
    /\ outcomes = <<>>
    /\ inserted = 0
    /\ error = NoError

\* etl.load_data(records)
CallLoad ==
    /\ pc = "load_call"
    /\ \E fault \in Faults, rejected \in SUBSET (1..Len(records)) :
          /\ fault # "none" => rejected = {}
          /\ LET r == load_data(records, Store(coll, index, nextId), fault, rejected)
             IN /\ coll' = r.store.coll
                /\ index' = r.store.index
                /\ nextId' = r.store.nextId
                /\ client' = r.client
                /\ calls' = calls \o r.calls
                /\ inserted' = r.ret
                /\ pc' = IF r.ok THEN "load_returned" ELSE "load_raised"
                /\ error' = r.error
    /\ UNCHANGED <<env, df, records, before, stages, outcomes>>

NextLoad == CallLoad

SpecLoad == InitLoad /\ [][NextLoad]_vars

\* ------------------------------------------------------------------ transform_data alone
Alphabet == {" ", "0", "1", ".", "x"}
NumericCells == {IntCell(0), IntCell(10), FloatCell(1, 0), FloatCell(15, 1),
                 FloatCell(2985, 2), FloatCell(5, 2)}
Cells == {StrCell(x) : x \in SeqsUpTo(Alphabet, MaxLen)} \cup NumericCells \cup {NaN}

RichSenior == SeniorValues \cup {FloatCell(1, 0), FloatCell(0, 0), FloatCell(15, 1),
                                 StrCell(<<"1">>), StrCell(<<"Y", "e", "s">>), NaN}

OneRowTables ==
    {[columns |-> Columns,
      rows |-> <<[customerID |-> "A", SeniorCitizen |-> sc, TotalCharges |-> tc]>>] :
        sc \in RichSenior, tc \in {StrCell(<<"1">>)}}
    \cup
    {[columns |-> Columns,
      rows |-> <<[customerID |-> "A", SeniorCitizen |-> IntCell(0), TotalCharges |-> tc]>>] :
        tc \in Cells}

InitTransform ==
    /\ pc = "transform_call"
    /\ env = ConfiguredEnv
    /\ df \in OneRowTables \cup {EmptyTable, HeaderlessTable}
    /\ records = <<>>
    /\ before = OldStore
    /\ coll = before.coll
    /\ index = before.index
    /\ nextId = before.nextId
    /\ client = "none"
    /\ calls = <<>>
    /\ stages = <<>>
    /\ outcomes = <<>>
    /\ inserted = 0
    /\ error = NoError

\* etl.transform_data(df)
CallTransform ==
    /\ pc = "transform_call"
    /\ LET r == transform_data(df)
       IN /\ records' = r.records
          /\ pc' = IF r.ok THEN "transform_returned" ELSE "transform_raised"
          /\ error' = r.error
    /\ UNCHANGED <<env, df, before, coll, index, nextId, client, calls,
                   stages, outcomes, inserted>>

NextTransform == CallTransform

SpecTransform == InitTransform /\ [][NextTransform]_vars

\* ------------------------------------------------------------------ properties
\* the input row a record of the batch comes from: the first with its customerID
FirstRow(cid) ==
    CHOOSE j \in 1..Len(df.rows) :
        /\ df.rows[j].customerID = cid
        /\ \A k \in 1..(j - 1) : df.rows[k].customerID # cid

Ones == {IntCell(1), FloatCell(1, 0)}
Zeros == {IntCell(0), FloatCell(0, 0)}

\* C3, as stated: after transform, a record's "SeniorCitizen" is "Yes" for the
\* raw value 1, "No" for 0 and the raw value itself for anything else.
C3_SeniorPassThrough ==
    pc = "transform_returned" =>
        \A i \in 1..Len(records) :
            LET raw == df.rows[FirstRow(records[i].customerID)].SeniorCitizen
                out == records[i].SeniorCitizen
            IN /\ raw \in Ones => out = Yes
               /\ raw \in Zeros => out = No
               /\ raw \notin Ones \cup Zeros => out = raw

\* C3, amended: after transform, a record's "SeniorCitizen" is "Yes" for the
\* raw value 1, "No" for 0 and missing (NaN) for anything else.
C3_SeniorUnmappedIsNaN ==
    pc = "transform_returned" =>
        \A i \in 1..Len(records) :
            LET raw == df.rows[FirstRow(records[i].customerID)].SeniorCitizen
                out == records[i].SeniorCitizen
            IN /\ raw \in Ones => out = Yes
               /\ raw \in Zeros => out = No
               /\ raw \notin Ones \cup Zeros => out = NaN

C3_Witness ==
    /\ pc = "transform_returned"
    /\ df.rows[1].SeniorCitizen = IntCell(2)
    /\ records[1].SeniorCitizen = NaN

TransformSucceeded == Len(outcomes) >= 2 /\ outcomes[2] = "ok"

\* C4: the batch has exactly one record per distinct customerID of the table,
\* made from the first row with that customerID, in the order of those rows.
C4_FirstOccurrenceKept ==
    TransformSucceeded =>
        /\ {records[i].customerID : i \in 1..Len(records)}
              = {df.rows[j].customerID : j \in 1..Len(df.rows)}
        /\ \A i, j \in 1..Len(records) :
              i # j => records[i].customerID # records[j].customerID
        /\ \A i \in 1..Len(records) :
              records[i] = to_records(<<df.rows[FirstRow(records[i].customerID)]>>)[1]
        /\ \A i, j \in 1..Len(records) :
              i < j => FirstRow(records[i].customerID) < FirstRow(records[j].customerID)

C4_Witness ==
    /\ TransformSucceeded
    /\ Len(df.rows) = 3
    /\ Len(records) = 2
    /\ df.rows[1].customerID = df.rows[3].customerID
    /\ df.rows[1] # df.rows[3]
    /\ df.rows[1].customerID # df.rows[2].customerID

LoadEnded == pc \in {"load_returned", "load_raised"}

\* C1, as stated: when load_data has ended on a non-empty batch, by returning
\* or by raising, the connection it opened is closed.
C1_ConnectionReleased ==
    (LoadEnded /\ records # <<>>) => client # "open"

\* the insert was attempted and the store took some records of the batch but
\* not all of them
PartiallyInserted ==
    /\ LoadEnded
    /\ calls # <<>>
    /\ error.cause # "StoreError"
    /\ 0 < Len(coll)
    /\ Len(coll) < Len(records)

\* C2, as stated: when the store rejects some but not all records of the
\* batch, load_data returns the number of records inserted.
C2_PartialInsertReturnsCount ==
    PartiallyInserted => (pc = "load_returned" /\ inserted = Len(coll))

DistinctIDs(recs) ==
    \A i, j \in 1..Len(recs) : i # j => recs[i].customerID # recs[j].customerID

\* C5: after load_data has returned for a non-empty batch of distinct
\* customerIDs, the collection holds the batch's records and none of the
\* documents it held before, the unique index exists and the value returned
\* is the size of the batch.
C5_CollectionReplaced ==
    (pc = "load_returned" /\ records # <<>> /\ DistinctIDs(records)) =>
        /\ [i \in 1..Len(coll) |-> coll[i].rec] = records
        /\ \A i \in 1..Len(coll), j \in 1..Len(before.coll) : coll[i] # before.coll[j]
        /\ \A i \in 1..Len(coll) : coll[i].id >= before.nextId
        /\ index
        /\ inserted = Len(records)

C5_Witness ==
    /\ pc = "load_returned"
    /\ Len(records) = 2
    /\ before.coll # <<>>
    /\ ~before.index
    /\ Len(coll) = 2

StageOrder == <<"extract", "transform", "load">>

\* C6: the stages run in the order extract, transform, load, each at most
\* once; a stage starts only when the one before it succeeded; once a stage
\* has raised no further stage runs and the job has failed with an error that
\* wraps the original one.
C6_StagesInOrder ==
    /\ Len(stages) <= Len(StageOrder)
    /\ Len(outcomes) = Len(stages)
    /\ \A i \in 1..Len(stages) : stages[i] = StageOrder[i]
    /\ \A i \in 2..Len(stages) : outcomes[i - 1] = "ok"
    /\ (\E i \in 1..Len(outcomes) : outcomes[i] = "raised") =>
          /\ pc = "failed"
          /\ error.cause # "none"
          /\ Len(error.linenos) >= 2
    /\ pc = "done" => outcomes = <<"ok", "ok", "ok">>

C6_Witness ==
    /\ pc = "failed"
    /\ stages = <<"extract", "transform">>
    /\ outcomes = <<"ok", "raised">>
    /\ error.cause = "KeyError"

\* C7: load_data on an empty batch returns 0, makes no store call, opens no
\* connection and leaves the collection and its index as they were.
C7_EmptyBatchNoOp ==
    (records = <<>> /\ pc # "load_call") =>
        /\ pc = "load_returned"
        /\ inserted = 0
        /\ calls = <<>>
        /\ client = "none"
        /\ Store(coll, index, nextId) = before

C7_Witness ==
    /\ pc = "load_returned"
    /\ records = <<>>
    /\ before.coll # <<>>
    /\ coll = before.coll

\* y is x without its leading and trailing spaces
IsTrimOf(y, x) ==
    \E a \in 1..(Len(x) + 1), b \in 0..Len(x) :
        /\ y = SubSeq(x, a, b)
        /\ \A i \in 1..(a - 1) : x[i] = " "
        /\ \A i \in (b + 1)..Len(x) : x[i] = " "
        /\ y # <<>> => (y[1] # " " /\ y[Len(y)] # " ")

AllDigits(x) == \A i \in 1..Len(x) : IsDigit(x[i])

\* y is a decimal numeral whose first p characters are its whole part
NumeralAt(y, p) ==
    /\ AllDigits(SubSeq(y, 1, p))
    /\ \/ p = Len(y) /\ p > 0
       \/ /\ p < Len(y)
          /\ y[p + 1] = "."
          /\ AllDigits(SubSeq(y, p + 2, Len(y)))
          /\ Len(y) > 1

IsNumeral(y) == \E p \in 0..Len(y) : NumeralAt(y, p)

\* the number out is the one the numeral y writes
Denotes(y, out) ==
    /\ out.t \in {"int", "float"}
    /\ \E p \in 0..Len(y) :
          /\ NumeralAt(y, p)
          /\ LET f == IF p = Len(y) THEN 0 ELSE Len(y) - p - 1
                 d == SubSeq(y, 1, p) \o SubSeq(y, p + 2, Len(y))
             IN out.m * Pow10(f) = DigitsValue(d) * Pow10(out.k)

\* C8: transform does not raise on a non-empty table that has its columns,
\* whatever the "TotalCharges" cells are; a record's "TotalCharges" is never a
\* string; it is missing (NaN) when the cell's text, without its surrounding
\* spaces, is empty or no numeral, and the number that text writes otherwise.
C8_TotalChargesCoerced ==
    /\ pc = "transform_raised" => (df.rows = <<>> \/ df.columns # Columns)
    /\ pc = "transform_returned" =>
          \A i \in 1..Len(records) :
              LET raw == df.rows[FirstRow(records[i].customerID)].TotalCharges
                  out == records[i].TotalCharges
              IN /\ out.t # "str"
                 /\ raw.t = "str" =>
                       \A y \in {SubSeq(raw.s, a, b) : a \in 1..(Len(raw.s) + 1), b \in 0..Len(raw.s)} :
                           IsTrimOf(y, raw.s) =>
                               IF y = <<>> \/ ~IsNumeral(y) THEN out = NaN ELSE Denotes(y, out)
                 /\ raw.t \in {"int", "float"} =>
                       /\ out.t \in {"int", "float"}
                       /\ out.m * Pow10(raw.k) = raw.m * Pow10(out.k)
                 /\ raw.t = "nan" => out = NaN

C8_Witness ==
    /\ pc = "transform_returned"
    /\ df.rows[1].TotalCharges = StrCell(<<" ", "1", " ">>)
    /\ records[1].TotalCharges = IntCell(1)

EnvNames == {EnvVars[i] : i \in 1..Len(EnvVars)}
MissingNames == {name \in EnvNames : env[name].none \/ env[name].s = <<>>}
Mentions(msg, name) == \E i \in 1..Len(msg) : msg[i] = name

\* C9: with a required parameter unset or empty the construction fails, the
\* error message names each such parameter and no other, and no stage runs
\* and no dataset or store call is made; with all four set it succeeds.
C9_ConfigurationValidated ==
    /\ MissingNames # {} =>
          /\ pc \in {"start", "failed"}
          /\ stages = <<>>
          /\ calls = <<>>
          /\ client = "none"
          /\ Store(coll, index, nextId) = before
          /\ pc = "failed" =>
                /\ error.cause = "ValueError"
                /\ \A name \in EnvNames : name \in MissingNames <=> Mentions(error.msg, name)
    /\ (MissingNames = {} /\ pc = "failed") => stages # <<>>

C9_Witness ==
    /\ pc = "failed"
    /\ Cardinality(MissingNames) = 3
    /\ stages = <<>>
    /\ \A name \in MissingNames : Mentions(error.msg, name)

\* C10: when load_data fails after clearing the collection and before the
\* insert, the collection is left empty: the documents it held are gone and
\* no record of the batch is in it.
C10_ClearedCollectionStaysEmpty ==
    (pc = "load_raised" /\ calls # <<>> /\ calls[Len(calls)] = "create_index") =>
        coll = <<>>

C10_Witness ==
    /\ pc = "load_raised"
    /\ calls = <<"MongoClient", "delete_many", "create_index">>
    /\ before.coll # <<>>
    /\ records # <<>>
    /\ coll = <<>>

====
